---- MODULE Spec2Model ----
(***************************************************************************)
(* Model of src/noise/chacha.rs: the ChaCha20-Poly1305 wrapper of the      *)
(* noise module (nonce derivation from a 64-bit counter, encrypt, decrypt, *)
(* optional caller-supplied output buffers).                               *)
(*                                                                         *)
(* The AEAD cipher itself is the external chacha20poly1305 crate.  It is   *)
(* modelled symbolically (perfect cryptography): a byte on the wire is a   *)
(* known 8-bit value XORed with a set of cipher outputs (key-stream bytes, *)
(* tag bytes), each named by the inputs that determine it.  Two bytes are  *)
(* equal exactly when value and set agree, i.e. distinct cipher outputs    *)
(* are treated as independent.                                             *)
(***************************************************************************)
EXTENDS Integers, Sequences, FiniteSets, TLC

VARIABLES op, args, ret, plain, sent, wire, tamper, counter, log

vars == <<op, args, ret, plain, sent, wire, tamper, counter, log>>

----------------------------------------------------------------------------
(* Program constants *)

TAG_SIZE == 16
KEY_SIZE == 32
NONCE_SIZE == 12

(* Bounds of the model *)

MaxMsgLen == 1
MaxAadLen == 1
MaxCalls == 2

----------------------------------------------------------------------------
(* Integers and bytes *)

\* u64: the counter is kept as four 16-bit limbs, least significant first
\* (TLC's integers are 32 bits wide).
U64(l0, l1, l2, l3) == <<l0, l1, l2, l3>>

\* u64::to_le_bytes
to_le_bytes(n) ==
    [i \in 1..8 |->
        LET limb == n[((i - 1) \div 2) + 1]
        IN  IF (i - 1) % 2 = 0 THEN limb % 256 ELSE limb \div 256]

RECURSIVE XorInt(_, _)
XorInt(x, y) ==
    IF x = 0 THEN y
    ELSE IF y = 0 THEN x
    ELSE ((x + y) % 2) + 2 * XorInt(x \div 2, y \div 2)

\* A byte of a message buffer: v XOR (the cipher outputs named in t).
Byte(v) == [v |-> v, t |-> {}]

Xor(a, b) == [v |-> XorInt(a.v, b.v), t |-> (a.t \ b.t) \cup (b.t \ a.t)]

Bytes(s) == [i \in 1..Len(s) |-> Byte(s[i])]

\* Option<&mut [u8]>
None == [some |-> FALSE, data |-> <<>>]
Some(d) == [some |-> TRUE, data |-> d]

----------------------------------------------------------------------------
(* chacha20poly1305 crate, as used at the two call sites *)

\* Byte i of the ChaCha20 key stream under (key, nonce).
KeyStream(key, nonce, i) ==
    [v |-> 0,
     t |-> {[f |-> "ks", key |-> key, nonce |-> nonce, aad |-> <<>>,
             body |-> <<>>, i |-> i]}]

\* The 16-byte Poly1305 tag over (aad, body) under (key, nonce).
Tag(key, nonce, aad, body) ==
    [i \in 1..TAG_SIZE |->
        [v |-> 0,
         t |-> {[f |-> "tag", key |-> key, nonce |-> nonce, aad |-> aad,
                 body |-> body, i |-> i]}]]

ApplyKeyStream(key, nonce, msg) ==
    [i \in 1..Len(msg) |-> Xor(msg[i], KeyStream(key, nonce, i))]

\* Aead::encrypt: encrypted body followed by the tag.  (It fails only for
\* messages beyond the cipher's limit of about 2^38 bytes.)
AeadEncrypt(key, nonce, aad, msg) ==
    LET body == ApplyKeyStream(key, nonce, msg)
    IN  [ok |-> TRUE, val |-> body \o Tag(key, nonce, aad, body)]

\* Aead::decrypt: input shorter than a tag rejected, then the tag verified,
\* then, only if it matches, the key stream removed.
AeadDecrypt(key, nonce, aad, msg) ==
    IF Len(msg) < TAG_SIZE
    THEN [ok |-> FALSE, val |-> <<>>, verified |-> FALSE]
    ELSE LET body == SubSeq(msg, 1, Len(msg) - TAG_SIZE)
             tag  == SubSeq(msg, Len(msg) - TAG_SIZE + 1, Len(msg))
         IN  IF tag = Tag(key, nonce, aad, body)
             THEN [ok |-> TRUE, val |-> ApplyKeyStream(key, nonce, body),
                   verified |-> TRUE]
             ELSE [ok |-> FALSE, val |-> <<>>, verified |-> TRUE]

\* The crate's opaque error value (a unit struct).
AeadError == "aead::Error"

----------------------------------------------------------------------------
(* noise::EncryptionError and its conversion from the crate's error *)

\* From<aead::Error> for EncryptionError, applied by the `?` operator.  The
\* crate's error carries no information, so every failure of the cipher is
\* converted to one and the same kind: the one a failed tag verification is
\* reported as.
EncryptionError_from(e) == "AuthenticationFailed"

----------------------------------------------------------------------------
(* src/noise/chacha.rs *)

\* Variants of _nonce with a slip: the counter never copied in, only its low
\* 32 bits copied in, and the counter copied in big-endian order.
_nonce_Fixed(nonce) == [i \in 1..NONCE_SIZE |-> 0]

_nonce_Low32(nonce) ==
    [i \in 1..NONCE_SIZE |->
        IF i <= NONCE_SIZE - 8 \/ i > NONCE_SIZE - 4 THEN 0
        ELSE to_le_bytes(nonce)[i - (NONCE_SIZE - 8)]]

_nonce_BigEndian(nonce) ==
    [i \in 1..NONCE_SIZE |->
        IF i <= NONCE_SIZE - 8 THEN 0
        ELSE to_le_bytes(nonce)[NONCE_SIZE + 1 - i]]

_nonce(nonce) ==
    [i \in 1..NONCE_SIZE |->
        IF i <= NONCE_SIZE - 8 THEN 0
        ELSE to_le_bytes(nonce)[i - (NONCE_SIZE - 8)]]

\* Key::from_slice panics unless the slice has exactly the key's length.
_cypher(key) == [panic |-> Len(key) # KEY_SIZE, key |-> key]

\* What a call leaves behind: how it ended, the value or error it returned,
\* the caller's buffer afterwards, the nonce it derived (<<>> if it did not
\* get that far) and whether the tag was verified.
Outcome(kind, val, err, buf, nonce, verified) ==
    [kind |-> kind, val |-> val, err |-> err, buf |-> buf, nonce |-> nonce,
     verified |-> verified]

\* Variants of encrypt with a slip: a copy clamped to the shorter length
\* instead of copy_from_slice, and the tag left off the returned bytes.
encrypt_ClampedCopy(key, nonce, associated_data, plaintext, ciphertext) ==
    LET c == _cypher(key)
        n == _nonce(nonce)
        e == AeadEncrypt(c.key, n, associated_data, plaintext).val
        d == ciphertext.data
    IN  IF c.panic
        THEN Outcome("Panic", <<>>, "", ciphertext, <<>>, FALSE)
        ELSE Outcome("Ok", e, "",
                     IF ciphertext.some
                     THEN Some([i \in 1..Len(d) |->
                                  IF i <= Len(e) THEN e[i] ELSE d[i]])
                     ELSE ciphertext,
                     n, FALSE)

encrypt_Detached(key, nonce, associated_data, plaintext, ciphertext) ==
    LET c == _cypher(key)
        n == _nonce(nonce)
        e == AeadEncrypt(c.key, n, associated_data, plaintext).val
        body == SubSeq(e, 1, Len(e) - TAG_SIZE)
    IN  IF c.panic
        THEN Outcome("Panic", <<>>, "", ciphertext, <<>>, FALSE)
        ELSE IF ciphertext.some /\ Len(ciphertext.data) # Len(body)
        THEN Outcome("Panic", <<>>, "", ciphertext, n, FALSE)
        ELSE Outcome("Ok", body, "",
                     IF ciphertext.some THEN Some(body) ELSE ciphertext,
                     n, FALSE)

encrypt(key, nonce, associated_data, plaintext, ciphertext) ==
    LET c == _cypher(key)
    IN  IF c.panic
        THEN Outcome("Panic", <<>>, "", ciphertext, <<>>, FALSE)
        ELSE
        LET n == _nonce(nonce)
            encrypted == AeadEncrypt(c.key, n, associated_data, plaintext)
        IN  IF ~encrypted.ok
            THEN Outcome("Err", <<>>, EncryptionError_from(AeadError),
                         ciphertext, n, FALSE)
            ELSE IF ciphertext.some
                    /\ Len(ciphertext.data) # Len(encrypted.val)
            THEN Outcome("Panic", <<>>, "", ciphertext, n, FALSE)
            ELSE Outcome("Ok", encrypted.val, "",
                         IF ciphertext.some THEN Some(encrypted.val)
                                            ELSE ciphertext,
                         n, FALSE)

\* Variants of decrypt with a slip: the associated data not passed on, the
\* key stream applied without the tag being verified, and the buffer
\* written before the tag is verified.
Deliver(r, plaintext, n) ==
    IF ~r.ok
    THEN Outcome("Err", <<>>, EncryptionError_from(AeadError), plaintext, n,
                 r.verified)
    ELSE IF plaintext.some /\ Len(plaintext.data) # Len(r.val)
    THEN Outcome("Panic", <<>>, "", plaintext, n, r.verified)
    ELSE Outcome("Ok", r.val, "",
                 IF plaintext.some THEN Some(r.val) ELSE plaintext,
                 n, r.verified)

decrypt_NoAad(key, nonce, associated_data, ciphertext, plaintext) ==
    LET c == _cypher(key)
        n == _nonce(nonce)
    IN  IF c.panic
        THEN Outcome("Panic", <<>>, "", plaintext, <<>>, FALSE)
        ELSE Deliver(AeadDecrypt(c.key, n, <<>>, ciphertext), plaintext, n)

decrypt_Unverified(key, nonce, associated_data, ciphertext, plaintext) ==
    LET c == _cypher(key)
        n == _nonce(nonce)
        body == SubSeq(ciphertext, 1, Len(ciphertext) - TAG_SIZE)
    IN  IF c.panic
        THEN Outcome("Panic", <<>>, "", plaintext, <<>>, FALSE)
        ELSE IF Len(ciphertext) < TAG_SIZE
        THEN Deliver([ok |-> FALSE, val |-> <<>>, verified |-> FALSE],
                     plaintext, n)
        ELSE Deliver([ok |-> TRUE, val |-> ApplyKeyStream(c.key, n, body),
                      verified |-> FALSE], plaintext, n)

decrypt_CopyFirst(key, nonce, associated_data, ciphertext, plaintext) ==
    LET c == _cypher(key)
        n == _nonce(nonce)
        body == SubSeq(ciphertext, 1, Len(ciphertext) - TAG_SIZE)
        early == IF plaintext.some /\ Len(ciphertext) >= TAG_SIZE
                    /\ Len(plaintext.data) = Len(body)
                 THEN Some(ApplyKeyStream(c.key, n, body))
                 ELSE plaintext
    IN  IF c.panic
        THEN Outcome("Panic", <<>>, "", plaintext, <<>>, FALSE)
        ELSE Deliver(AeadDecrypt(c.key, n, associated_data, ciphertext),
                     early, n)

decrypt(key, nonce, associated_data, ciphertext, plaintext) ==
    LET c == _cypher(key)
    IN  IF c.panic
        THEN Outcome("Panic", <<>>, "", plaintext, <<>>, FALSE)
        ELSE
        LET n == _nonce(nonce)
            decrypted == AeadDecrypt(c.key, n, associated_data, ciphertext)
        IN  IF ~decrypted.ok
            THEN Outcome("Err", <<>>, EncryptionError_from(AeadError),
                         plaintext, n, decrypted.verified)
            ELSE IF plaintext.some
                    /\ Len(plaintext.data) # Len(decrypted.val)
            THEN Outcome("Panic", <<>>, "", plaintext, n, TRUE)
            ELSE Outcome("Ok", decrypted.val, "",
                         IF plaintext.some THEN Some(decrypted.val)
                                           ELSE plaintext,
                         n, TRUE)

----------------------------------------------------------------------------
(* Inputs *)

RECURSIVE SeqsUpTo(_, _)
SeqsUpTo(S, n) ==
    IF n = 0 THEN {<<>>}
    ELSE LET shorter == SeqsUpTo(S, n - 1)
         IN  shorter \cup {Append(s, x) : s \in shorter, x \in S}

Keys ==
    {[i \in 1..KEY_SIZE |-> i],
     [i \in 1..(KEY_SIZE - 1) |-> i],
     [i \in 1..(KEY_SIZE + 1) |-> i]}

\* ... and a second key of the right length
SessionKeys == Keys \cup {[i \in 1..KEY_SIZE |-> 2 * i]}

\* 0, 1 and 2^32 + 1
Counters == {U64(0, 0, 0, 0), U64(1, 0, 0, 0), U64(1, 0, 1, 0)}

\* ... and 0x0123456789abcdef, 2^64 - 1
SessionCounters ==
    Counters \cup {U64(52719, 35243, 17767, 291),
                   U64(65535, 65535, 65535, 65535)}

Aads == SeqsUpTo({7}, MaxAadLen)

Plaintexts == {Bytes(s) : s \in SeqsUpTo({65}, MaxMsgLen)}

Fill(n) == [i \in 1..n |-> Byte(170)]

\* Output buffers a caller may pass with a message of the given length: none,
\* one as long as the message, or one that differs from it by the length of
\* a tag (shorter where the message has a tag to lose, longer otherwise).
Buffers(len) ==
    {None, Some(Fill(len)),
     Some(Fill(IF len >= TAG_SIZE THEN len - TAG_SIZE ELSE len + TAG_SIZE))}

\* The bits of a byte that get flipped: the lowest and the highest.
FlipBits == {0, 7}

FlipBit(b, j) ==
    [v |-> IF (b.v \div (2 ^ j)) % 2 = 1 THEN b.v - 2 ^ j ELSE b.v + 2 ^ j,
     t |-> b.t]

----------------------------------------------------------------------------
(* The caller *)

NoCall ==
    [key |-> <<>>, nonce |-> U64(0, 0, 0, 0), aad |-> <<>>, buf |-> None]

\* op, args, ret: the last call (of encrypt or decrypt), its key, counter,
\*   associated data and output buffer, and its outcome.
\* plain: the plaintext last passed to encrypt.
\* wire: the ciphertext under way; decrypt is called on it.
\* sent: whether a ciphertext is under way, and the key, counter and
\*   associated data of the call of encrypt that returned it.
\* tamper: what happened to the ciphertext since.
\* counter: the counter a session keeps for its next message.
\* log: the calls of encrypt a session made: key, counter, nonce derived.
Init ==
    /\ op = "init"
    /\ args = NoCall
    /\ ret = Outcome("None", <<>>, "", None, <<>>, FALSE)
    /\ plain = <<>>
    /\ sent = [live |-> FALSE, key |-> <<>>, nonce |-> U64(0, 0, 0, 0),
               aad |-> <<>>]
    /\ wire = <<>>
    /\ tamper = "none"
    /\ counter = U64(0, 0, 0, 0)
    /\ log = {}

\* A call of encrypt while no message is under way; a ciphertext it returns
\* goes on the wire.
Encrypt(k, n, a, p, buf) ==
    LET r == encrypt(k, n, a, p, buf)
    IN  /\ ~sent.live
        /\ op' = "encrypt"
        /\ args' = [key |-> k, nonce |-> n, aad |-> a, buf |-> buf]
        /\ plain' = p
        /\ ret' = r
        /\ IF r.kind = "Ok"
           THEN /\ sent' = [live |-> TRUE, key |-> k, nonce |-> n, aad |-> a]
                /\ wire' = r.val
           ELSE UNCHANGED <<sent, wire>>
        /\ UNCHANGED <<tamper, counter, log>>

\* One bit of the ciphertext on the wire is flipped.
Flip(i, j) ==
    /\ sent.live
    /\ op = "encrypt"
    /\ tamper = "none"
    /\ i \in 1..Len(wire)
    /\ wire' = [wire EXCEPT ![i] = FlipBit(wire[i], j)]
    /\ tamper' = "flip"
    /\ UNCHANGED <<op, args, ret, plain, sent, counter, log>>

\* The ciphertext on the wire is cut to fewer bytes than a tag.
Truncate(m) ==
    /\ sent.live
    /\ op = "encrypt"
    /\ tamper = "none"
    /\ m < Len(wire)
    /\ wire' = SubSeq(wire, 1, m)
    /\ tamper' = "cut"
    /\ UNCHANGED <<op, args, ret, plain, sent, counter, log>>

\* A call of decrypt on what is on the wire; it ends the run.
Decrypt(k, n, a, buf) ==
    /\ sent.live
    /\ op = "encrypt"
    /\ op' = "decrypt"
    /\ args' = [key |-> k, nonce |-> n, aad |-> a, buf |-> buf]
    /\ ret' = decrypt(k, n, a, wire, buf)
    /\ UNCHANGED <<plain, sent, wire, tamper, counter, log>>

Next ==
    \/ \E k \in Keys, n \in Counters, a \in Aads, p \in Plaintexts :
         \E buf \in Buffers(Len(p)) : Encrypt(k, n, a, p, buf)
    \/ \E i \in 1..(MaxMsgLen + TAG_SIZE), j \in FlipBits : Flip(i, j)
    \/ \E m \in 0..(TAG_SIZE - 1) : Truncate(m)
    \/ \E k \in Keys, n \in Counters, a \in Aads :
         \E buf \in Buffers(Len(wire)) : Decrypt(k, n, a, buf)

Spec == Init /\ [][Next]_vars

----------------------------------------------------------------------------
(* A session: the caller owns the counter, passes it to encrypt and moves  *)
(* it on itself, never passing one value twice under one key.  Its         *)
(* messages carry no associated data and it passes no output buffer.       *)

Used(k) == {c.nonce : c \in {d \in log : d.key = k}}

SessionEncrypt(k, p) ==
    LET r == encrypt(k, counter, <<>>, p, None)
    IN  /\ Cardinality(log) < MaxCalls
        /\ \A c \in log : ~(c.key = k /\ c.n = counter)
        /\ op' = "encrypt"
        /\ args' = [key |-> k, nonce |-> counter, aad |-> <<>>, buf |-> None]
        /\ plain' = p
        /\ ret' = r
        /\ log' = IF r.nonce = <<>> THEN log
                  ELSE log \cup {[key |-> k, n |-> counter,
                                  nonce |-> r.nonce]}
        /\ UNCHANGED <<sent, wire, tamper, counter>>

Advance(n) ==
    /\ n # counter
    /\ counter' = n
    /\ UNCHANGED <<op, args, ret, plain, sent, wire, tamper, log>>

SessionNext ==
    \/ \E k \in SessionKeys, p \in Plaintexts : SessionEncrypt(k, p)
    \/ \E n \in SessionCounters : Advance(n)

SessionSpec == Init /\ [][SessionNext]_vars

----------------------------------------------------------------------------
(* Properties *)

\* decrypt is called with the key, counter and associated data of the call
\* of encrypt that returned the ciphertext.
SameCall ==
    /\ args.key = sent.key
    /\ args.nonce = sent.nonce
    /\ args.aad = sent.aad

\* The last call got as far as producing its result.
Completes ==
    \/ op = "encrypt" /\ Len(args.key) = KEY_SIZE
    \/ op = "decrypt" /\ tamper = "none" /\ SameCall

\* The length of the result the last call produces.
ProducedLen ==
    IF op = "encrypt" THEN Len(plain) + TAG_SIZE ELSE Len(wire) - TAG_SIZE

WrongBuffer == args.buf.some /\ Len(args.buf.data) # ProducedLen

\* C1 (round trip): with a 32-byte key and no output buffer encrypt
\* succeeds, and decrypt of the ciphertext it returned, with the same key,
\* counter and associated data and no output buffer, succeeds and returns
\* exactly the plaintext.
C1_RoundTrip ==
    /\ (op = "encrypt" /\ Len(args.key) = KEY_SIZE /\ ~args.buf.some)
          => ret.kind = "Ok"
    /\ (op = "decrypt" /\ tamper = "none" /\ SameCall /\ ~args.buf.some)
          => (ret.kind = "Ok" /\ ret.val = plain)

C1_Witness ==
    /\ op = "decrypt" /\ tamper = "none" /\ SameCall /\ ~args.buf.some
    /\ Len(plain) = MaxMsgLen /\ Len(args.aad) = MaxAadLen
    /\ ret.kind = "Ok" /\ ret.val = plain

C3_KeyError ==
    (op \in {"encrypt", "decrypt"} /\ Len(args.key) # KEY_SIZE)
      => (ret.kind = "Err" /\ ret.err = "KeyError")

\* C4 (short ciphertext): decrypt of fewer than 16 bytes returns the error
\* CiphertextTooShort, before the cipher is built from the key, the nonce
\* derived or the tag verified.
C4_CiphertextTooShort ==
    (op = "decrypt" /\ Len(wire) < TAG_SIZE)
      => (ret.kind = "Err" /\ ret.err = "CiphertextTooShort"
          /\ ret.err # EncryptionError_from(AeadError)
          /\ ret.nonce = <<>> /\ ~ret.verified)

\* C5 (tamper detection): decrypt of a ciphertext with one bit flipped, in
\* the body or in the tag, with the key, counter and associated data it was
\* encrypted with, returns the error AuthenticationFailed and no plaintext.
C5_TamperDetected ==
    (op = "decrypt" /\ tamper = "flip" /\ SameCall)
      => (ret.kind = "Err" /\ ret.err = "AuthenticationFailed"
          /\ ret.val = <<>> /\ ret.verified)

C5_Witness ==
    /\ op = "decrypt" /\ tamper = "flip" /\ SameCall
    /\ Len(plain) > 0 /\ wire[1] # Xor(plain[1], KeyStream(sent.key,
                                         _nonce(sent.nonce), 1))
    /\ ret.kind = "Err"

\* C6 (nonce binding): decrypt of an untouched ciphertext with the key and
\* associated data it was encrypted with but another counter fails.
C6_NonceBinding ==
    (op = "decrypt" /\ tamper = "none" /\ args.key = sent.key
       /\ args.aad = sent.aad /\ args.nonce # sent.nonce)
      => ret.kind = "Err"

C6_Witness ==
    /\ op = "decrypt" /\ tamper = "none" /\ args.key = sent.key
    /\ args.aad = sent.aad
    /\ sent.nonce = U64(1, 0, 1, 0) /\ args.nonce = U64(1, 0, 0, 0)
    /\ ret.kind = "Err"

\* C7 (lengths): the bytes a successful encrypt returns are 16 more than the
\* plaintext, the bytes a successful decrypt returns are 16 fewer than the
\* ciphertext, whatever the associated data.
C7_Lengths ==
    /\ (op = "encrypt" /\ ret.kind = "Ok")
          => Len(ret.val) = Len(plain) + TAG_SIZE
    /\ (op = "decrypt" /\ ret.kind = "Ok")
          => Len(ret.val) = Len(wire) - TAG_SIZE

C7_Witness ==
    /\ op = "decrypt" /\ ret.kind = "Ok"
    /\ Len(args.aad) = MaxAadLen
    /\ Len(wire) = MaxMsgLen + TAG_SIZE /\ Len(ret.val) = MaxMsgLen

\* C8 (nonce derivation): every call with a 32-byte key derives a nonce; it
\* is 12 bytes, the first four zero, the other eight the counter in
\* little-endian order; calls with the same counter derive the same nonce.
C8_NonceDerivation ==
    /\ (op = "encrypt" /\ Len(args.key) = KEY_SIZE) => ret.nonce # <<>>
    /\ ret.nonce # <<>> =>
          /\ Len(ret.nonce) = 12
          /\ \A i \in 1..12 : ret.nonce[i] \in 0..255
          /\ \A i \in 1..4 : ret.nonce[i] = 0
          /\ \A j \in 0..3 :
                args.nonce[j + 1]
                  = ret.nonce[5 + 2 * j] + 256 * ret.nonce[6 + 2 * j]
    /\ \A c, d \in log : c.n = d.n => c.nonce = d.nonce

C8_Witness ==
    /\ op = "encrypt" /\ args.nonce = U64(52719, 35243, 17767, 291)
    /\ ret.nonce = <<0, 0, 0, 0, 239, 205, 171, 137, 103, 69, 35, 1>>

\* C9 (no partial output): a call that does not succeed returns no bytes and
\* leaves the output buffer as it was; a call that succeeds leaves in the
\* buffer exactly the bytes it returns.  A decrypt that fails on the tag or
\* on the length returns an error.
C9_BufferOnlyOnSuccess ==
    /\ ret.kind # "Ok" => (ret.buf = args.buf /\ ret.val = <<>>)
    /\ (ret.kind = "Ok" /\ args.buf.some) => ret.buf = Some(ret.val)
    /\ (ret.kind = "Ok" /\ ~args.buf.some) => ret.buf = None
    /\ (op = "decrypt" /\ Len(args.key) = KEY_SIZE
          /\ (tamper # "none" \/ ~SameCall))
          => ret.kind = "Err"

C9_Witness ==
    /\ op = "decrypt" /\ tamper = "flip" /\ SameCall
    /\ args.buf = Some(Fill(MaxMsgLen))
    /\ Len(wire) = MaxMsgLen + TAG_SIZE
    /\ ret.kind = "Err" /\ ret.buf = args.buf

\* C10 (nonce uniqueness): in a session that never passes one counter twice
\* under one key, calls under one key with different counters derive
\* different nonces, so there are as many nonces as calls.
C10_NonceUnique ==
    /\ \A c, d \in log :
          (c.key = d.key /\ c.n # d.n) => c.nonce # d.nonce
    /\ \A k \in SessionKeys :
          Cardinality(Used(k)) = Cardinality({c \in log : c.key = k})

C10_Witness ==
    \E c, d \in log :
        /\ c.key = d.key /\ c.n # d.n
        /\ c.n[1] = d.n[1] /\ c.n[2] = d.n[2]
        /\ c.nonce # d.nonce

====
